---- MODULE Spec2Model ----
(***************************************************************************)
(* Sign-up form of src/app/app.ts: the field validators, the error-message *)
(* getters and the submit / success-banner life cycle of the App component.*)
(*                                                                         *)
(* Strings are sequences of one-character strings.  A scheduled callback   *)
(* (setTimeout) is a record of the list `timers`, kept in creation order,  *)
(* that holds the milliseconds left before it is due; the clock advances   *)
(* in steps of the shortest delay of the program (SubmitDelayMs).          *)
(* submit(), required() and email() are those of @angular/forms/signals:   *)
(* submit marks every field touched, returns when the form is invalid and  *)
(* otherwise runs its action, whether or not an earlier action is pending. *)
(* App.onSubmit runs without interruption up to its await, and its         *)
(* continuation runs in one piece when the delay callback fires.           *)
(***************************************************************************)
EXTENDS Integers, Sequences, FiniteSets, TLC

VARIABLES
    model,            \* App.model: the SignUpForm value {username, email}
    fieldTouched,     \* touched state of the two field nodes of App.form
    touched,          \* App.touched, the component's model<boolean>
    showSuccessAlert, \* App.showSuccessAlert
    submittedData,    \* App.submittedData: <<>> (null) or <<a SignUpForm>>
    timers,           \* pending setTimeout callbacks, in creation order
    triggers,         \* number of onSubmit calls so far
    sideEffectCalls,  \* number of times the submit action body was entered
    resolved,         \* number of submit actions that ran to their end
    closed,           \* closeAlert was called since the latest success
    fnName,           \* pure-function harness: the function applied
    fnValue,          \* pure-function harness: the string argument
    fnErrors,         \* pure-function harness: the failure-list argument
    retErrors,        \* pure-function harness: a returned failure list
    retMsg            \* pure-function harness: a returned message

appVars == <<model, fieldTouched, touched, showSuccessAlert, submittedData,
             timers, triggers, sideEffectCalls, resolved, closed>>
fnVars == <<fnName, fnValue, fnErrors, retErrors, retMsg>>
vars == <<model, fieldTouched, touched, showSuccessAlert, submittedData,
          timers, triggers, sideEffectCalls, resolved, closed,
          fnName, fnValue, fnErrors, retErrors, retMsg>>

----------------------------------------------------------------------------
(* Bounds of the model *)

\* submit triggers on a valid form in one behaviour
MaxSubmissions == 2
\* submit triggers on an invalid form in one behaviour
MaxRejected == 2
\* length of the long strings handed to the validators
MaxStrLen == 21
\* length up to which every string over InputChars is handed to the validators
ShortLen == 3
\* length of the failure lists handed to the message getters
MaxErrors == 2

(* Program constants *)

\* setTimeout(resolve, 500)
SubmitDelayMs == 500
\* setTimeout(() => showSuccessAlert.set(false), 5000)
AutoHideMs == 5000
\* value.length < 3
MinUsernameLen == 3
\* value.length > 20
MaxUsernameLen == 20

----------------------------------------------------------------------------
(* Characters and strings *)

Lower == {"a","b","c","d","e","f","g","h","i","j","k","l","m",
          "n","o","p","q","r","s","t","u","v","w","x","y","z"}
Upper == {"A","B","C","D","E","F","G","H","I","J","K","L","M",
          "N","O","P","Q","R","S","T","U","V","W","X","Y","Z"}
Digit == {"0","1","2","3","4","5","6","7","8","9"}

\* the character class [a-zA-Z0-9]
AlnumClass == Lower \cup Upper \cup Digit

\* the empty string ''
EmptyStr == <<>>

\* the characters the strings handed to the validators are made of
InputChars == {"a", "Z", "7", "$"}

\* every string over InputChars of length at most n
StringsUpTo(n) == UNION {[1..k -> InputChars] : k \in 0..n}

\* the string of n characters c, with the character at position p replaced by d
\* (p = 0: none replaced)
RunWith(n, c, p, d) == [i \in 1..n |-> IF i = p THEN d ELSE c]

\* the strings handed to the username validator: every short string, and for
\* each greater length a run of letters holding at most one other character
StrInputs ==
    StringsUpTo(ShortLen)
    \cup {RunWith(n, "a", p, d) : n \in (ShortLen + 1)..MaxStrLen,
                                   p \in 0..MaxStrLen, d \in {"$", "7"}}

----------------------------------------------------------------------------
(* Validators: usernameValidator of app.ts, required and email of          *)
(* @angular/forms/signals as app.ts applies them to the two fields         *)

\* the messages of app.ts, written without their accents
MsgUsernameFormat == "Solo debe contener letras y numeros"
MsgUsernameLength == "Debe tener entre 3 y 20 caracteres"
MsgUsernameRequired == "Este campo es obligatorio"
MsgEmailRequired == "El email es obligatorio"
MsgEmailInvalid == "Ingrese un email valido"
\* the message of a failure the library raises without one
NoMessage == ""

Failure(k, m) == [kind |-> k, message |-> m]

\* s[i..Len(s)] holds only characters of class
RECURSIVE AllInClass(_, _, _)
AllInClass(s, i, class) ==
    IF i > Len(s) THEN TRUE
    ELSE IF s[i] \in class THEN AllInClass(s, i + 1, class)
    ELSE FALSE

\* /^[a-zA-Z0-9]+$/.test(value)
TestAlnumPlus(value) == Len(value) >= 1 /\ AllInClass(value, 1, AlnumClass)

\* usernameValidator with the lower length limit off by one
usernameValidator_LengthOffByOne(value) ==
    IF value = EmptyStr THEN <<>>
    ELSE IF ~TestAlnumPlus(value)
        THEN <<Failure("usernameInvalid", MsgUsernameFormat)>>
    ELSE IF Len(value) <= MinUsernameLen \/ Len(value) > MaxUsernameLen
        THEN <<Failure("usernameInvalid", MsgUsernameLength)>>
    ELSE <<>>

\* usernameValidator without the early return on the empty value
usernameValidator_NoEmptyCheck(value) ==
    IF ~TestAlnumPlus(value)
        THEN <<Failure("usernameInvalid", MsgUsernameFormat)>>
    ELSE IF Len(value) < MinUsernameLen \/ Len(value) > MaxUsernameLen
        THEN <<Failure("usernameInvalid", MsgUsernameLength)>>
    ELSE <<>>

\* usernameValidator with the length rule checked before the format rule
usernameValidator_LengthFirst(value) ==
    IF value = EmptyStr THEN <<>>
    ELSE IF Len(value) < MinUsernameLen \/ Len(value) > MaxUsernameLen
        THEN <<Failure("usernameInvalid", MsgUsernameLength)>>
    ELSE IF ~TestAlnumPlus(value)
        THEN <<Failure("usernameInvalid", MsgUsernameFormat)>>
    ELSE <<>>

\* the failures the validate() callback of usernameValidator returns for value
\* (null is the empty list)
usernameValidator(value) ==
    IF value = EmptyStr THEN <<>>
    ELSE IF ~TestAlnumPlus(value)
        THEN <<Failure("usernameInvalid", MsgUsernameFormat)>>
    ELSE IF Len(value) < MinUsernameLen \/ Len(value) > MaxUsernameLen
        THEN <<Failure("usernameInvalid", MsgUsernameLength)>>
    ELSE <<>>

\* required(path): a failure of kind required for the empty value
required(value) ==
    IF value = EmptyStr THEN <<Failure("required", NoMessage)>> ELSE <<>>

\* the characters an e-mail local part is made of (the pattern of the library,
\* less the backquote, which no input of the model holds)
AtextClass == AlnumClass \cup {"!", "#", "$", "%", "&", "'", "*", "+", "/", "=",
                               "?", "^", "_", "{", "|", "}", "~", "-"}

\* the segments of s between the occurrences of sep
RECURSIVE Split(_, _)
Split(s, sep) ==
    IF \A i \in 1..Len(s) : s[i] # sep THEN <<s>>
    ELSE LET i == CHOOSE j \in 1..Len(s) :
                      s[j] = sep /\ \A k \in 1..(j - 1) : s[k] # sep
         IN  <<SubSeq(s, 1, i - 1)>> \o Split(SubSeq(s, i + 1, Len(s)), sep)

\* [atext]+
IsAtom(a) == Len(a) >= 1 /\ AllInClass(a, 1, AtextClass)

\* [a-zA-Z0-9](?:[a-zA-Z0-9-]{0,61}[a-zA-Z0-9])?
IsLabel(l) ==
    /\ Len(l) >= 1 /\ Len(l) <= 63
    /\ l[1] \in AlnumClass /\ l[Len(l)] \in AlnumClass
    /\ AllInClass(l, 1, AlnumClass \cup {"-"})

\* EMAIL_REGEXP.test(value): at most 254 characters, a local part of 1 to 64
\* characters made of atoms joined by dots, one @, a domain made of labels
\* joined by dots
TestEmail(value) ==
    LET parts == Split(value, "@")
    IN  /\ Len(value) >= 1 /\ Len(value) <= 254
        /\ Len(parts) = 2
        /\ Len(parts[1]) >= 1 /\ Len(parts[1]) <= 64
        /\ LET atoms == Split(parts[1], ".")
           IN  \A i \in 1..Len(atoms) : IsAtom(atoms[i])
        /\ LET labels == Split(parts[2], ".")
           IN  \A i \in 1..Len(labels) : IsLabel(labels[i])

\* email(path): no failure for the empty value, a failure of kind email for a
\* value the pattern rejects
email(value) ==
    IF value = EmptyStr THEN <<>>
    ELSE IF ~TestEmail(value) THEN <<Failure("email", NoMessage)>>
    ELSE <<>>

\* form.username().errors(): required(s.username), then usernameValidator
usernameErrors(value) == required(value) \o usernameValidator(value)

\* form.email().errors(): required(s.email), then email(s.email)
emailErrors(value) == required(value) \o email(value)

\* form().invalid(): some field has a failure
invalid(m) == usernameErrors(m.username) # <<>> \/ emailErrors(m.email) # <<>>

----------------------------------------------------------------------------
(* Error-message getters *)

\* errors.find((e) => e.kind === kind): the first failure of that kind, as a
\* list of at most one element (undefined is the empty list)
find(errors, kind) ==
    LET hits == SelectSeq(errors, LAMBDA e : e.kind = kind)
    IN  IF hits = <<>> THEN <<>> ELSE <<Head(hits)>>

\* getUsernameError with the two kinds looked up in the other order
getUsernameError_FormatFirst(errors) ==
    IF find(errors, "usernameInvalid") # <<>>
        THEN find(errors, "usernameInvalid")[1].message
    ELSE IF find(errors, "required") # <<>> THEN MsgUsernameRequired
    ELSE ""

\* App.getUsernameError, as a function of form.username().errors()
getUsernameError(errors) ==
    IF find(errors, "required") # <<>> THEN MsgUsernameRequired
    ELSE IF find(errors, "usernameInvalid") # <<>>
        THEN find(errors, "usernameInvalid")[1].message
    ELSE ""

\* App.getEmailError, as a function of form.email().errors()
getEmailError(errors) ==
    IF find(errors, "required") # <<>> THEN MsgEmailRequired
    ELSE IF find(errors, "email") # <<>> THEN MsgEmailInvalid
    ELSE ""

----------------------------------------------------------------------------
(* The App component *)

Fields == {"username", "email"}

\* the values the user types into the username field
UsernameInputs == {EmptyStr, <<"a", "$">>, <<"a", "b", "c">>,
                   <<"Z", "e", "d", "7">>}

\* the values the user types into the email field
EmailInputs == {EmptyStr, <<"a", ".", "b">>, <<"a", "@", "b", ".", "c">>}

\* the SignUpForm value with both fields empty
EmptyForm == [username |-> EmptyStr, email |-> EmptyStr]

\* a pending setTimeout callback: kind "delay" resumes the submit action of
\* submission number cycle, which holds formData; kind "hide" is the auto-hide
\* callback that the success of submission number cycle scheduled
Timer(k, ms, data, c) == [kind |-> k, left |-> ms, formData |-> data, cycle |-> c]

\* the timer at position i is the next callback to run: it is due and no timer
\* created before it is due
Due(i) == timers[i].left = 0 /\ \A j \in 1..(i - 1) : timers[j].left # 0

\* seq without its element at position i
Remove(seq, i) == SubSeq(seq, 1, i - 1) \o SubSeq(seq, i + 1, Len(seq))

\* the submissions in flight: those whose submit action awaits its delay
InFlight == {i \in 1..Len(timers) : timers[i].kind = "delay"}

\* the auto-hide callbacks not yet run
PendingHides == {i \in 1..Len(timers) : timers[i].kind = "hide"}

\* the state of the controller: Submitting while a submit action is suspended
Submitting == InFlight # {}
Idle == InFlight = {}

AppInit ==
    /\ model = EmptyForm
    /\ fieldTouched = [f \in Fields |-> FALSE]
    /\ touched = FALSE
    /\ showSuccessAlert = FALSE
    /\ submittedData = <<>>
    /\ timers = <<>>
    /\ triggers = 0
    /\ sideEffectCalls = 0
    /\ resolved = 0
    /\ closed = FALSE

\* the user types v into the username field
setUsername(v) ==
    /\ v # model.username
    /\ model' = [model EXCEPT !.username = v]
    /\ UNCHANGED <<fieldTouched, touched, showSuccessAlert, submittedData,
                   timers, triggers, sideEffectCalls, resolved, closed>>

\* setEmail that writes a whole new form value and so empties the username
setEmail_ClearsUsername(v) ==
    /\ v # model.email
    /\ model' = [username |-> EmptyStr, email |-> v]
    /\ UNCHANGED <<fieldTouched, touched, showSuccessAlert, submittedData,
                   timers, triggers, sideEffectCalls, resolved, closed>>

\* the user types v into the email field
setEmail(v) ==
    /\ v # model.email
    /\ model' = [model EXCEPT !.email = v]
    /\ UNCHANGED <<fieldTouched, touched, showSuccessAlert, submittedData,
                   timers, triggers, sideEffectCalls, resolved, closed>>

\* the user leaves field f: the field node becomes touched
blur(f) ==
    /\ ~fieldTouched[f]
    /\ fieldTouched' = [fieldTouched EXCEPT ![f] = TRUE]
    /\ UNCHANGED <<model, touched, showSuccessAlert, submittedData,
                   timers, triggers, sideEffectCalls, resolved, closed>>

\* onSubmit without the validity check of submit()
onSubmit_SkipsValidation ==
    /\ IF invalid(model) THEN triggers - sideEffectCalls < MaxRejected
                          ELSE sideEffectCalls < MaxSubmissions
    /\ sideEffectCalls < MaxSubmissions
    /\ triggers' = triggers + 1
    /\ fieldTouched' = [f \in Fields |-> TRUE]
    /\ sideEffectCalls' = sideEffectCalls + 1
    /\ timers' = Append(timers, Timer("delay", SubmitDelayMs, model,
                                      sideEffectCalls + 1))
    /\ UNCHANGED <<model, touched, showSuccessAlert, submittedData, resolved,
                   closed>>

\* onSubmit that keeps rejecting once a submit trigger was rejected
onSubmit_LatchesRejection ==
    /\ IF invalid(model) THEN triggers - sideEffectCalls < MaxRejected
                          ELSE sideEffectCalls < MaxSubmissions
    /\ triggers' = triggers + 1
    /\ fieldTouched' = [f \in Fields |-> TRUE]
    /\ IF invalid(model) \/ triggers > sideEffectCalls
         THEN UNCHANGED <<timers, sideEffectCalls>>
         ELSE /\ sideEffectCalls' = sideEffectCalls + 1
              /\ timers' = Append(timers, Timer("delay", SubmitDelayMs, model,
                                                sideEffectCalls + 1))
    /\ UNCHANGED <<model, touched, showSuccessAlert, submittedData, resolved,
                   closed>>

\* App.onSubmit up to its suspension: submit() marks every field touched and
\* returns when the form is invalid; otherwise the action takes formData and
\* schedules the 500 ms delay it awaits
onSubmit ==
    /\ IF invalid(model) THEN triggers - sideEffectCalls < MaxRejected
                          ELSE sideEffectCalls < MaxSubmissions
    /\ triggers' = triggers + 1
    /\ fieldTouched' = [f \in Fields |-> TRUE]
    /\ IF invalid(model)
         THEN UNCHANGED <<timers, sideEffectCalls>>
         ELSE /\ sideEffectCalls' = sideEffectCalls + 1
              /\ timers' = Append(timers, Timer("delay", SubmitDelayMs, model,
                                                sideEffectCalls + 1))
    /\ UNCHANGED <<model, touched, showSuccessAlert, submittedData, resolved,
                   closed>>

\* resolveSubmit that takes the end of the delay for a failure and waits again
resolveSubmit_Retries ==
    \E i \in 1..Len(timers) :
        /\ Due(i)
        /\ timers[i].kind = "delay"
        /\ timers' = Append(Remove(timers, i),
                            Timer("delay", SubmitDelayMs, timers[i].formData,
                                  timers[i].cycle))
        /\ UNCHANGED <<model, fieldTouched, touched, showSuccessAlert,
                       submittedData, triggers, sideEffectCalls, resolved,
                       closed>>

\* resolveSubmit that stores the model as it is when the delay is over
resolveSubmit_StoresCurrentModel ==
    \E i \in 1..Len(timers) :
        /\ Due(i)
        /\ timers[i].kind = "delay"
        /\ submittedData' = <<model>>
        /\ showSuccessAlert' = TRUE
        /\ model' = EmptyForm
        /\ touched' = FALSE
        /\ timers' = Append(Remove(timers, i),
                            Timer("hide", AutoHideMs, EmptyForm, timers[i].cycle))
        /\ resolved' = resolved + 1
        /\ closed' = FALSE
        /\ UNCHANGED <<fieldTouched, triggers, sideEffectCalls>>

\* the rest of the submit action, run when its delay is over: store the data,
\* show the alert, empty the model, set App.touched, schedule the auto-hide
resolveSubmit ==
    \E i \in 1..Len(timers) :
        /\ Due(i)
        /\ timers[i].kind = "delay"
        /\ submittedData' = <<timers[i].formData>>
        /\ showSuccessAlert' = TRUE
        /\ model' = EmptyForm
        /\ touched' = FALSE
        /\ timers' = Append(Remove(timers, i),
                            Timer("hide", AutoHideMs, EmptyForm, timers[i].cycle))
        /\ resolved' = resolved + 1
        /\ closed' = FALSE
        /\ UNCHANGED <<fieldTouched, triggers, sideEffectCalls>>

\* an auto-hide callback that leaves the banner as it is
autoHide_KeepsBanner ==
    \E i \in 1..Len(timers) :
        /\ Due(i)
        /\ timers[i].kind = "hide"
        /\ timers' = Remove(timers, i)
        /\ UNCHANGED <<model, fieldTouched, touched, showSuccessAlert,
                       submittedData, triggers, sideEffectCalls, resolved,
                       closed>>

\* the auto-hide callback runs
autoHide ==
    \E i \in 1..Len(timers) :
        /\ Due(i)
        /\ timers[i].kind = "hide"
        /\ showSuccessAlert' = FALSE
        /\ timers' = Remove(timers, i)
            /\ UNCHANGED <<model, fieldTouched, touched, submittedData, triggers,
                       sideEffectCalls, resolved, closed>>

\* closeAlert that also resets the form
closeAlert_ResetsForm ==
    /\ showSuccessAlert' = FALSE
    /\ model' = EmptyForm
    /\ fieldTouched' = [f \in Fields |-> FALSE]
    /\ closed' = TRUE
    /\ UNCHANGED <<touched, submittedData, timers, triggers, sideEffectCalls,
                   resolved>>

\* closeAlert that also drops the submitted data
closeAlert_ClearsData ==
    /\ showSuccessAlert' = FALSE
    /\ submittedData' = <<>>
    /\ closed' = TRUE
    /\ UNCHANGED <<model, fieldTouched, touched, timers, triggers,
                   sideEffectCalls, resolved>>

\* closeAlert that toggles the banner instead of hiding it
closeAlert_Toggles ==
    /\ showSuccessAlert' = ~showSuccessAlert
    /\ closed' = TRUE
    /\ UNCHANGED <<model, fieldTouched, touched, submittedData, timers,
                   triggers, sideEffectCalls, resolved>>

\* App.closeAlert
closeAlert ==
    /\ showSuccessAlert' = FALSE
    /\ closed' = TRUE
    /\ UNCHANGED <<model, fieldTouched, touched, submittedData, timers,
                   triggers, sideEffectCalls, resolved>>

\* SubmitDelayMs pass; no time passes while a callback is due
Tick ==
    /\ timers # <<>>
    /\ \A i \in 1..Len(timers) : timers[i].left > 0
    /\ timers' = [i \in 1..Len(timers) |->
                    [timers[i] EXCEPT !.left = @ - SubmitDelayMs]]
    /\ UNCHANGED <<model, fieldTouched, touched, showSuccessAlert,
                   submittedData, triggers, sideEffectCalls, resolved, closed>>

----------------------------------------------------------------------------
(* The pure functions applied to inputs drawn from bounded sets *)

\* the failures a failure list handed to the getters is made of
FailureInputs == {Failure("required", NoMessage),
                  Failure("usernameInvalid", MsgUsernameFormat),
                  Failure("usernameInvalid", MsgUsernameLength),
                  Failure("email", NoMessage),
                  Failure("server", "taken")}

ErrorInputs == UNION {[1..k -> FailureInputs] : k \in 0..MaxErrors}

\* the harness at rest, as it stays under Spec
FnIdle ==
    /\ fnName = "none"
    /\ fnValue = EmptyStr
    /\ fnErrors = <<>>
    /\ retErrors = <<>>
    /\ retMsg = ""

\* one input is drawn: a string for the validators or a failure list for the
\* getters
FnInit ==
    /\ AppInit
    /\ fnName = "none"
    /\ \/ fnValue \in StrInputs /\ fnErrors = <<>>
       \/ fnValue = EmptyStr /\ fnErrors \in ErrorInputs
    /\ retErrors = <<>>
    /\ retMsg = ""

callUsernameValidator ==
    /\ fnName = "none"
    /\ fnName' = "usernameValidator"
    /\ retErrors' = usernameValidator(fnValue)
    /\ UNCHANGED <<fnValue, fnErrors, retMsg>>

callUsernameErrors ==
    /\ fnName = "none"
    /\ fnName' = "usernameErrors"
    /\ retErrors' = usernameErrors(fnValue)
    /\ UNCHANGED <<fnValue, fnErrors, retMsg>>

callGetUsernameError ==
    /\ fnName = "none"
    /\ fnName' = "getUsernameError"
    /\ retMsg' = getUsernameError(fnErrors)
    /\ UNCHANGED <<fnValue, fnErrors, retErrors>>

callGetEmailError ==
    /\ fnName = "none"
    /\ fnName' = "getEmailError"
    /\ retMsg' = getEmailError(fnErrors)
    /\ UNCHANGED <<fnValue, fnErrors, retErrors>>

----------------------------------------------------------------------------
(* Specifications *)

Init == AppInit /\ FnIdle

Next ==
    \/ (\E v \in UsernameInputs : setUsername(v)) /\ UNCHANGED fnVars
    \/ (\E v \in EmailInputs : setEmail(v)) /\ UNCHANGED fnVars
    \/ (\E f \in Fields : blur(f)) /\ UNCHANGED fnVars
    \/ onSubmit /\ UNCHANGED fnVars
    \/ resolveSubmit /\ UNCHANGED fnVars
    \/ autoHide /\ UNCHANGED fnVars
    \/ closeAlert /\ UNCHANGED fnVars
    \/ Tick /\ UNCHANGED fnVars

\* the component under every interleaving of user events, callbacks and time
Spec == Init /\ [][Next]_vars

\* timers run: time passes and a callback that is due is run
Fairness == WF_vars(Tick /\ UNCHANGED fnVars)
            /\ WF_vars((resolveSubmit \/ autoHide) /\ UNCHANGED fnVars)

LiveSpec == Init /\ [][Next]_vars /\ Fairness

FnNext ==
    \/ callUsernameValidator /\ UNCHANGED appVars
    \/ callUsernameErrors /\ UNCHANGED appVars
    \/ callGetUsernameError /\ UNCHANGED appVars
    \/ callGetEmailError /\ UNCHANGED appVars

\* the validators and getters applied once to every input
FnSpec == FnInit /\ [][FnNext]_vars

------------------------------------------------------------
----------------------------------------------------------------------------
(* Claims *)

\* the value holds only ASCII letters and digits
OnlyAlnum(v) == \A i \in 1..Len(v) : v[i] \in AlnumClass

\* the step is a submit trigger
SubmitStep == triggers' = triggers + 1

\* the step is the end of a submit action
ResolveStep == resolved' = resolved + 1

\* the step runs an auto-hide callback
AutoHideStep == Cardinality(PendingHides') < Cardinality(PendingHides)

\* the step is a call of closeAlert on the visible banner
CloseStep == showSuccessAlert /\ ~closed /\ closed'

\* C1: a submit trigger that arrives while an earlier submission is in flight
\* is a no-op: the side effect is not invoked again, no second submission is
\* started, and the data, the banner and the fields are left alone.
C1_SingleFlight ==
    [][(SubmitStep /\ Submitting) =>
           /\ sideEffectCalls' = sideEffectCalls
           /\ timers' = timers
           /\ UNCHANGED <<model, submittedData, showSuccessAlert>>]_vars

\* C2: an explicit close of the visible banner hides it at once and cancels
\* the auto-hide callback that the success scheduled: after the close that
\* callback is no longer pending.
C2_CloseCancelsAutoHide ==
    [][CloseStep =>
           /\ ~showSuccessAlert'
           /\ \A i \in PendingHides' : timers'[i].cycle # resolved]_vars

\* C3: a submit trigger made while a field is invalid aborts: the side effect
\* is not invoked, no submission is started, the submitted data, the banner
\* and the field values are unchanged, an idle controller is idle again, and
\* every field is marked touched.
C3_InvalidSubmitAborts ==
    [][(SubmitStep /\ invalid(model)) =>
           /\ sideEffectCalls' = sideEffectCalls
           /\ timers' = timers
           /\ UNCHANGED <<model, submittedData, showSuccessAlert>>
           /\ (Idle => Idle')
           /\ \A f \in Fields : fieldTouched'[f]]_vars

\* C3 witness: the only submit trigger so far was rejected: the form still
\* holds its invalid username, the controller is idle, both fields are touched
C3_Witness ==
    /\ triggers = 1
    /\ sideEffectCalls = 0
    /\ model.username = <<"a", "$">>
    /\ invalid(model)
    /\ Idle
    /\ submittedData = <<>>
    /\ \A f \in Fields : fieldTouched[f]

\* C4: when the side effect of a submission resolves, the submitted data is
\* the valid snapshot that submission took, the banner is visible and both
\* fields are the empty string.
C4_ResolveStoresSnapshot ==
    [][ResolveStep =>
           \E i \in InFlight :
               /\ Due(i)
               /\ ~invalid(timers[i].formData)
               /\ submittedData' = <<timers[i].formData>>
               /\ showSuccessAlert'
               /\ model'.username = EmptyStr
               /\ model'.email = EmptyStr]_vars

\* C4 witness: the submission of abc / a@b.c has resolved: its data is
\* stored, the banner is visible, the fields are empty
C4_Witness ==
    /\ resolved = 1
    /\ submittedData = <<[username |-> <<"a", "b", "c">>,
                          email |-> <<"a", "@", "b", ".", "c">>]>>
    /\ showSuccessAlert
    /\ model = EmptyForm
    /\ Cardinality(PendingHides) = 1

\* C5: while the banner is visible the auto-hide callback of the latest
\* success is pending and due within 5000 ms, and the banner, once visible,
\* is eventually hidden.
C5_BannerEventuallyHidden ==
    /\ [](showSuccessAlert =>
             \E i \in PendingHides :
                 timers[i].cycle = resolved /\ timers[i].left <= AutoHideMs)
    /\ (showSuccessAlert ~> ~showSuccessAlert)

\* C5 witness: after the only success, with no call of closeAlert, the
\* auto-hide callback has run and the banner is hidden
C5_Witness ==
    /\ resolved = 1
    /\ sideEffectCalls = 1
    /\ ~closed
    /\ timers = <<>>
    /\ ~showSuccessAlert

\* C6 as stated: no failure for an alphanumeric value of length 3 to 20; one
\* failure of kind usernameInvalid for a value that holds another character
\* or is alphanumeric of length < 3 or > 20.
C6_AsStated ==
    fnName = "usernameValidator" =>
        /\ (OnlyAlnum(fnValue) /\ Len(fnValue) >= 3 /\ Len(fnValue) <= 20)
               => retErrors = <<>>
        /\ (~OnlyAlnum(fnValue) \/ Len(fnValue) < 3 \/ Len(fnValue) > 20)
               => (Len(retErrors) = 1 /\ retErrors[1].kind = "usernameInvalid")

\* C6 amended: as stated for every non-empty value; for the empty value the
\* validator returns no failure.
C6_NonEmptyValues ==
    fnName = "usernameValidator" =>
        /\ (OnlyAlnum(fnValue) /\ Len(fnValue) >= 3 /\ Len(fnValue) <= 20)
               => retErrors = <<>>
        /\ (fnValue # EmptyStr
            /\ (~OnlyAlnum(fnValue) \/ Len(fnValue) < 3 \/ Len(fnValue) > 20))
               => (Len(retErrors) = 1 /\ retErrors[1].kind = "usernameInvalid")
        /\ fnValue = EmptyStr => retErrors = <<>>

\* C6 witness: the validator has returned one failure for a value of letters
\* one character longer than the limit
C6_Witness ==
    /\ fnName = "usernameValidator"
    /\ Len(fnValue) = MaxUsernameLen + 1
    /\ OnlyAlnum(fnValue)
    /\ Len(retErrors) = 1
    /\ retErrors[1].kind = "usernameInvalid"

\* the failure list holds a failure of that kind
HasKind(errors, kind) == \E i \in 1..Len(errors) : errors[i].kind = kind

\* the first failure of that kind in the list
FirstOfKind(errors, kind) ==
    errors[CHOOSE i \in 1..Len(errors) :
               errors[i].kind = kind
               /\ \A j \in 1..(i - 1) : errors[j].kind # kind]

\* C7: for every failure list the message shown is the required message when
\* the list holds a required failure; otherwise, when it holds a failure of
\* the field's format kind, the format message (for username the one that
\* failure carries); otherwise the empty string.
C7_MessagePriority ==
    /\ fnName = "getUsernameError" =>
           retMsg = IF HasKind(fnErrors, "required") THEN MsgUsernameRequired
                    ELSE IF HasKind(fnErrors, "usernameInvalid")
                        THEN FirstOfKind(fnErrors, "usernameInvalid").message
                    ELSE ""
    /\ fnName = "getEmailError" =>
           retMsg = IF HasKind(fnErrors, "required") THEN MsgEmailRequired
                    ELSE IF HasKind(fnErrors, "email") THEN MsgEmailInvalid
                    ELSE ""

\* C7 witness: a list that holds the format failure before the required one
\* got the required message
C7_Witness ==
    /\ fnName = "getUsernameError"
    /\ fnErrors = <<Failure("usernameInvalid", MsgUsernameFormat),
                    Failure("required", NoMessage)>>
    /\ retMsg = MsgUsernameRequired

\* C8: the reset at the end of a successful submission leaves both fields
\* empty and no field touched.
C8_ResetClearsTouched ==
    [][ResolveStep =>
           /\ model' = EmptyForm
           /\ \A f \in Fields : ~fieldTouched'[f]]_vars

\* C9: a rejected submit trigger leaves an idle controller idle, and a submit
\* trigger on a valid form, whatever was rejected before, is accepted: it
\* starts one submission of the current values and invokes the side effect
\* exactly once.
C9_RecoverableAfterRejection ==
    [][/\ (SubmitStep /\ invalid(model) /\ Idle) => Idle'
       /\ (SubmitStep /\ ~invalid(model)) =>
              /\ sideEffectCalls' = sideEffectCalls + 1
              /\ Cardinality(InFlight') = Cardinality(InFlight) + 1
              /\ Submitting'
              /\ timers'[Len(timers')].formData = model]_vars

\* C9 witness: two submit triggers were rejected and one, on the corrected
\* form, is in flight
C9_Witness ==
    /\ triggers = 3
    /\ sideEffectCalls = 1
    /\ resolved = 0
    /\ ~invalid(model)
    /\ Cardinality(InFlight) = 1

\* C10: a visible banner is hidden by an auto-hide callback only if the
\* success that showed it (the latest one) scheduled that callback.
C10_NoStaleHide ==
    [][(AutoHideStep /\ showSuccessAlert) =>
           \E i \in PendingHides : Due(i) /\ timers[i].cycle = resolved]_vars

\* the formData of the submissions in flight, oldest first
Snapshots ==
    LET d == SelectSeq(timers, LAMBDA t : t.kind = "delay")
    IN  [i \in 1..Len(d) |-> d[i].formData]

\* C11: the data of a submission is taken at the submit trigger, from the
\* values that were validated, no edit made while it is in flight changes
\* it, and it is what the resolution stores, whatever the fields hold then.
C11_SnapshotAtSubmitTime ==
    [][/\ (SubmitStep /\ ~invalid(model)) => Snapshots' = Append(Snapshots, model)
       /\ (~SubmitStep /\ ~ResolveStep) => Snapshots' = Snapshots
       /\ ResolveStep =>
              /\ Snapshots # <<>>
              /\ submittedData' = <<Head(Snapshots)>>
              /\ Snapshots' = Tail(Snapshots)]_vars

\* C11 witness: the first submission (abc) has just resolved, no time has
\* passed since, and a second one, triggered before that resolution with the
\* username edited to Zed7, is due: the fields held Zed7 at the resolution
\* and abc was stored
C11_Witness ==
    /\ resolved = 1
    /\ submittedData = <<[username |-> <<"a", "b", "c">>,
                          email |-> <<"a", "@", "b", ".", "c">>]>>
    /\ Len(timers) = 2
    /\ timers[1].kind = "delay"
    /\ timers[1].left = 0
    /\ timers[1].formData.username = <<"Z", "e", "d", "7">>
    /\ timers[2].kind = "hide"
    /\ timers[2].left = AutoHideMs

\* C12 as stated: the banner is not visible while a submission is in flight;
\* in particular a submission that an idle controller starts is in flight
\* with the banner hidden, a submit being accepted only once it is hidden.
C12_HiddenWhileSubmitting ==
    [][(Idle /\ Submitting') => ~showSuccessAlert']_vars

\* C12 amended: the banner becomes visible only at the successful end of a
\* submission, no submit trigger changes it, and it is visible only after a
\* success; a later submission may be in flight while it is still visible.
C12_ShownOnlyBySuccess ==
    /\ [](showSuccessAlert => resolved >= 1)
    /\ [][/\ (~showSuccessAlert /\ showSuccessAlert') => ResolveStep
          /\ SubmitStep => showSuccessAlert' = showSuccessAlert]_vars

\* C12 witness: the banner of the first success is visible while the second
\* submission, triggered after that success, is in flight
C12_Witness ==
    /\ showSuccessAlert
    /\ resolved = 1
    /\ Cardinality(InFlight) = 1
    /\ \E i \in InFlight : timers[i].left = SubmitDelayMs
    /\ \E i \in PendingHides : timers[i].left < AutoHideMs

\* C13: the format rule is checked before the length rule and one failure is
\* reported: a non-empty value that holds a character other than a letter or
\* a digit gets the single failure with the letters-and-numbers message,
\* whatever its length; the length message is reported for the non-empty
\* alphanumeric values of length < 3 or > 20, and for no other value.
C13_FormatBeforeLength ==
    fnName = "usernameValidator" =>
        /\ (fnValue # EmptyStr /\ ~OnlyAlnum(fnValue))
               => retErrors = <<Failure("usernameInvalid", MsgUsernameFormat)>>
        /\ (\E i \in 1..Len(retErrors) : retErrors[i].message = MsgUsernameLength)
               <=> (/\ fnValue # EmptyStr
                    /\ OnlyAlnum(fnValue)
                    /\ (Len(fnValue) < 3 \/ Len(fnValue) > 20))
        /\ Len(retErrors) <= 1

\* C13 witness: a value that breaks both rules (one character, not a letter
\* or digit) got the format message alone
C13_Witness ==
    /\ fnName = "usernameValidator"
    /\ fnValue = <<"$">>
    /\ retErrors = <<Failure("usernameInvalid", MsgUsernameFormat)>>

\* C14: a submission in flight is at most 500 ms from its end, every
\* submission that was started eventually ends with success, and a
\* controller that is Submitting is eventually Idle again.
C14_SubmissionsResolve ==
    /\ [](\A i \in InFlight : timers[i].left <= SubmitDelayMs)
    /\ [](resolved <= sideEffectCalls)
    /\ \A c \in 1..MaxSubmissions : (sideEffectCalls >= c) ~> (resolved >= c)
    /\ (Submitting ~> Idle)

\* C14 witness: two submissions were started, both have ended with success
\* and the controller is idle
C14_Witness ==
    /\ sideEffectCalls = 2
    /\ resolved = 2
    /\ Idle
    /\ submittedData # <<>>

\* the step is an edit of the email field, of the username field
EmailEditStep == model'.email # model.email /\ ~ResolveStep
UsernameEditStep == model'.username # model.username /\ ~ResolveStep

EmailShaped(e) ==
    /\ Cardinality({i \in 1..Len(e) : e[i] = "@"}) = 1
    /\ e[1] # "@"
    /\ e[Len(e)] # "@"

\* C16: the last-submitted data is absent or valid as a whole: its username
\* is alphanumeric of length 3 to 20 and its email is non-empty and
\* email-shaped.
C16_SubmittedDataValid ==
    submittedData # <<>> =>
        /\ OnlyAlnum(submittedData[1].username)
        /\ Len(submittedData[1].username) >= 3
        /\ Len(submittedData[1].username) <= 20
        /\ submittedData[1].email # EmptyStr
        /\ EmailShaped(submittedData[1].email)

\* C16 witness: after edits to invalid values, a rejected trigger and two
\* successes, the data stored last is the valid Zed7 / a@b.c
C16_Witness ==
    /\ resolved = 2
    /\ triggers > sideEffectCalls
    /\ submittedData = <<[username |-> <<"Z", "e", "d", "7">>,
                          email |-> <<"a", "@", "b", ".", "c">>]>>

\* C17: the last-submitted data is null until the first success, is not null
\* whenever the banner is visible, and once set is never null again.
C17_DataOutlivesBanner ==
    /\ [](resolved = 0 => submittedData = <<>>)
    /\ [](showSuccessAlert => submittedData # <<>>)
    /\ [][submittedData # <<>> => submittedData' # <<>>]_vars

\* C17 witness: after a success the banner was closed, the auto-hide
\* callback has run and a later submit trigger was rejected; the data is
\* still there
C17_Witness ==
    /\ resolved = 1
    /\ closed
    /\ ~showSuccessAlert
    /\ timers = <<>>
    /\ triggers = 2
    /\ sideEffectCalls = 1
    /\ \A f \in Fields : fieldTouched[f]
    /\ submittedData # <<>>

\* C18: the custom validator yields no failure for the empty value, required
\* yields one for the empty value only, so the failure list of the username
\* field never holds both kinds and has at most one element, and the message
\* shown is the one of that single failure, whatever the priority order.
C18_RequiredAndFormatExclusive ==
    /\ (fnName = "usernameValidator" /\ fnValue = EmptyStr) => retErrors = <<>>
    /\ fnName = "usernameErrors" =>
           /\ Len(retErrors) <= 1
           /\ ~(HasKind(retErrors, "required")
                /\ HasKind(retErrors, "usernameInvalid"))
           /\ HasKind(retErrors, "required") <=> fnValue = EmptyStr
           /\ getUsernameError(retErrors) =
                  IF retErrors = <<>> THEN ""
                  ELSE IF retErrors[1].kind = "required"
                      THEN MsgUsernameRequired
                  ELSE retErrors[1].message

\* C18 witness: the failure list of the empty username is the required
\* failure alone
C18_Witness ==
    /\ fnName = "usernameErrors"
    /\ fnValue = EmptyStr
    /\ retErrors = <<Failure("required", NoMessage)>>

\* the delay callbacks of the submissions in flight, oldest first
InFlightTimers == SelectSeq(timers, LAMBDA t : t.kind = "delay")

\* the step is a call of closeAlert, the banner being visible or not
\* (a further call before the next success changes nothing at all)
AnyCloseStep == ~closed /\ closed'

\* C19: closeAlert, in whatever state it is called, hides the banner and
\* leaves the field values, the touched flags, the last-submitted data and
\* the submissions in flight unchanged.
C19_CloseChangesOnlyBanner ==
    [][AnyCloseStep =>
           /\ ~showSuccessAlert'
           /\ UNCHANGED <<model, fieldTouched, touched, submittedData>>
           /\ UNCHANGED <<triggers, sideEffectCalls, resolved>>
           /\ InFlightTimers' = InFlightTimers]_vars

\* C19 witness: closeAlert was called with the banner already hidden, while
\* the first submission was in flight, and the submission, the typed values
\* and the touched flags are as the trigger left them
C19_Witness ==
    /\ closed
    /\ resolved = 0
    /\ triggers = 1
    /\ Len(timers) = 1
    /\ timers[1].kind = "delay"
    /\ timers[1].formData = model
    /\ \A f \in Fields : fieldTouched[f]
    /\ submittedData = <<>>

====
